---- MODULE Spec2Model ----
(***************************************************************************)
(* Model of the OIDC demo: the resource server (src/resource_server/app.py)*)
(* with its process-wide JWKS cache and bearer-token validation, and the   *)
(* relying party (src/app/app.py) with its login callback and session.     *)
(***************************************************************************)
EXTENDS Naturals, Sequences, FiniteSets

(***************************************************************************)
(* Bounds of the model.                                                    *)
(***************************************************************************)
\* Cap on the JWKS requests the stub provider records.
MaxFetches == 3

\* The request-handling threads of the resource server: two are what a race
\* on the empty cache needs.
Threads == {"t1", "t2"}

(***************************************************************************)
(* Resource server: configuration, key sets and tokens.                    *)
(***************************************************************************)
KEYCLOAK_ISSUER == "http://localhost:8080/realms/myrealm"
EXPECTED_AUDIENCE == "my-client"

\* Key IDs the identity provider may sign with, and the key sets it may publish.
KeyIds == {"k1", "k2"}
KeySets == {{"k1"}, {"k2"}}

\* _cached_jwks = None
None == [present |-> FALSE, keys |-> {}]
\* a parsed JWKS document
Jwks(ks) == [present |-> TRUE, keys |-> ks]

\* A compact token, described by what jwt.decode reads from it:
\* wf: three well-formed segments; alg: the header's algorithm; kid: the key
\* that produced the signature; iss, aud, expired: the claims.
Tok(wf, alg, kid, iss, aud, expired) ==
    [wf |-> wf, alg |-> alg, kid |-> kid, iss |-> iss, aud |-> aud, expired |-> expired]

GoodToken(k) == Tok(TRUE, "RS256", k, KEYCLOAK_ISSUER, {EXPECTED_AUDIENCE}, FALSE)

Tokens ==
    { GoodToken("k1"),
      GoodToken("k2"),
      Tok(TRUE, "none", "k1", KEYCLOAK_ISSUER, {EXPECTED_AUDIENCE}, FALSE),
      Tok(TRUE, "HS256", "k1", KEYCLOAK_ISSUER, {EXPECTED_AUDIENCE}, FALSE),
      Tok(TRUE, "RS256", "k1", "http://evil/realms/myrealm", {EXPECTED_AUDIENCE}, FALSE),
      Tok(TRUE, "RS256", "k1", KEYCLOAK_ISSUER, {"account"}, FALSE),
      Tok(TRUE, "RS256", "k1", KEYCLOAK_ISSUER, {"account", EXPECTED_AUDIENCE}, TRUE),
      Tok(FALSE, "RS256", "k1", KEYCLOAK_ISSUER, {EXPECTED_AUDIENCE}, FALSE) }

NoToken == Tok(FALSE, "none", "k1", "", {}, FALSE)

\* The Authorization header of a request: absent, another scheme, or
\* 'Bearer <token>'.
NoHeader == [present |-> FALSE, bearer |-> FALSE, token |-> NoToken]
BasicHeader == [present |-> TRUE, bearer |-> FALSE, token |-> NoToken]
BearerHeader(tk) == [present |-> TRUE, bearer |-> TRUE, token |-> tk]
Headers == {NoHeader, BasicHeader} \cup {BearerHeader(tk) : tk \in Tokens}

\* The identity provider's JWKS endpoint: reachable or not, and the key set
\* it publishes.
ProviderStates == [up : BOOLEAN, keys : KeySets]

VARIABLES
    cached_jwks,   \* _cached_jwks, the process-wide cache
    provider,      \* state of the identity provider's JWKS endpoint
    fetchLog,      \* the provider's record of JWKS requests: "ok" or "fail" each
    pc,            \* pc[t]: where thread t stands in protected_resource
    auth_header,   \* auth_header[t]: the Authorization header of the request t handles
    response,      \* response[t]: the parsed JWKS response thread t holds
    jwks,          \* jwks[t]: what get_keycloak_jwks returned to thread t
    status         \* status[t]: the HTTP status thread t answered (0: none yet)

rsVars == <<cached_jwks, provider, fetchLog, pc, auth_header, response, jwks, status>>

VARIABLES
    session,       \* the Flask session of the user agent: a mapping from keys to values
    attempt,       \* the login attempt /callback is handling, or last handled
    reply          \* the last answer of the relying party to the user agent

rpVars == <<session, attempt, reply>>

\* A call of decode_jwt taken alone: its argument, its position, the padded
\* payload and what it returns.
VARIABLES
    decoding

vars == <<rsVars, rpVars, decoding>>

\* Mutant of JwtDecode: the algorithms restriction is dropped.
JwtDecode_AnyAlgorithm(token, keyset) ==
    /\ token.wf
    /\ token.kid \in keyset.keys
    /\ ~token.expired
    /\ token.iss = KEYCLOAK_ISSUER
    /\ EXPECTED_AUDIENCE \in token.aud

(***************************************************************************)
(* jwt.decode(token, jwks, audience, issuer, algorithms=["RS256"]):        *)
(* TRUE when it returns the claims, FALSE when it raises.                  *)
(***************************************************************************)
JwtDecode(token, keyset) ==
    /\ token.wf
    /\ token.alg = "RS256"
    /\ token.kid \in keyset.keys
    /\ ~token.expired
    /\ token.iss = KEYCLOAK_ISSUER
    /\ EXPECTED_AUDIENCE \in token.aud

InitRS ==
    /\ cached_jwks = None
    /\ provider \in ProviderStates
    /\ fetchLog = <<>>
    /\ pc = [t \in Threads |-> "idle"]
    /\ auth_header = [t \in Threads |-> NoHeader]
    /\ response = [t \in Threads |-> None]
    /\ jwks = [t \in Threads |-> None]
    /\ status = [t \in Threads |-> 0]

\* Mutant of BeginRequest: the 'Bearer ' prefix is not checked.
BeginRequest_NoSchemeCheck(t) ==
    /\ pc[t] = "idle"
    /\ \E h \in Headers :
        /\ auth_header' = [auth_header EXCEPT ![t] = h]
        /\ IF ~h.present
           THEN /\ status' = [status EXCEPT ![t] = 401]
                /\ pc' = [pc EXCEPT ![t] = "done"]
           ELSE /\ pc' = [pc EXCEPT ![t] = "check"]
                /\ UNCHANGED status
    /\ UNCHANGED <<cached_jwks, provider, fetchLog, response, jwks>>
    /\ UNCHANGED <<rpVars, decoding>>

\* protected_resource, up to the call of validate_token: the header checks.
BeginRequest(t) ==
    /\ pc[t] = "idle"
    /\ \E h \in Headers :
        /\ auth_header' = [auth_header EXCEPT ![t] = h]
        /\ IF ~h.present \/ ~h.bearer
           THEN /\ status' = [status EXCEPT ![t] = 401]
                /\ pc' = [pc EXCEPT ![t] = "done"]
           ELSE /\ pc' = [pc EXCEPT ![t] = "check"]
                /\ UNCHANGED status
    /\ UNCHANGED <<cached_jwks, provider, fetchLog, response, jwks>>
    /\ UNCHANGED <<rpVars, decoding>>

\* Mutant of CheckCache: the cache is not consulted, every call fetches.
CheckCache_AlwaysFetch(t) ==
    /\ pc[t] = "check"
    /\ pc' = [pc EXCEPT ![t] = "fetch"]
    /\ UNCHANGED <<cached_jwks, provider, fetchLog, auth_header, response, jwks, status>>
    /\ UNCHANGED <<rpVars, decoding>>

\* get_keycloak_jwks: if _cached_jwks is None
CheckCache(t) ==
    /\ pc[t] = "check"
    /\ pc' = [pc EXCEPT ![t] = IF cached_jwks = None THEN "fetch" ELSE "return"]
    /\ UNCHANGED <<cached_jwks, provider, fetchLog, auth_header, response, jwks, status>>
    /\ UNCHANGED <<rpVars, decoding>>

\* Mutant of FetchJwks: a failed request is tried again by the same call.
FetchJwks_RetryOnFailure(t) ==
    /\ pc[t] = "fetch"
    /\ Len(fetchLog) < MaxFetches
    /\ IF provider.up
       THEN /\ fetchLog' = Append(fetchLog, "ok")
            /\ response' = [response EXCEPT ![t] = Jwks(provider.keys)]
            /\ pc' = [pc EXCEPT ![t] = "store"]
            /\ UNCHANGED status
       ELSE /\ fetchLog' = Append(fetchLog, "fail")
            /\ UNCHANGED <<status, pc, response>>
    /\ UNCHANGED <<cached_jwks, provider, auth_header, jwks>>
    /\ UNCHANGED <<rpVars, decoding>>

\* get_keycloak_jwks: requests.get and raise_for_status; a failure (network
\* error, timeout, non-2xx status) raises ConnectionError, which
\* protected_resource answers with 500.
FetchJwks(t) ==
    /\ pc[t] = "fetch"
    /\ Len(fetchLog) < MaxFetches
    /\ IF provider.up
       THEN /\ fetchLog' = Append(fetchLog, "ok")
            /\ response' = [response EXCEPT ![t] = Jwks(provider.keys)]
            /\ pc' = [pc EXCEPT ![t] = "store"]
            /\ UNCHANGED status
       ELSE /\ fetchLog' = Append(fetchLog, "fail")
            /\ status' = [status EXCEPT ![t] = 500]
            /\ pc' = [pc EXCEPT ![t] = "done"]
            /\ UNCHANGED response
    /\ UNCHANGED <<cached_jwks, provider, auth_header, jwks>>
    /\ UNCHANGED <<rpVars, decoding>>

\* Mutant of StoreJwks: the response is returned without being cached.
StoreJwks_NotCached(t) ==
    /\ pc[t] = "store"
    /\ jwks' = [jwks EXCEPT ![t] = response[t]]
    /\ response' = [response EXCEPT ![t] = None]
    /\ pc' = [pc EXCEPT ![t] = "validate"]
    /\ UNCHANGED <<cached_jwks, provider, fetchLog, auth_header, status>>
    /\ UNCHANGED <<rpVars, decoding>>

\* get_keycloak_jwks: _cached_jwks = response.json()
StoreJwks(t) ==
    /\ pc[t] = "store"
    /\ cached_jwks' = response[t]
    /\ response' = [response EXCEPT ![t] = None]
    /\ pc' = [pc EXCEPT ![t] = "return"]
    /\ UNCHANGED <<provider, fetchLog, auth_header, jwks, status>>
    /\ UNCHANGED <<rpVars, decoding>>

\* get_keycloak_jwks: return _cached_jwks
ReturnJwks(t) ==
    /\ pc[t] = "return"
    /\ jwks' = [jwks EXCEPT ![t] = cached_jwks]
    /\ pc' = [pc EXCEPT ![t] = "validate"]
    /\ UNCHANGED <<cached_jwks, provider, fetchLog, auth_header, response, status>>
    /\ UNCHANGED <<rpVars, decoding>>

\* validate_token's jwt.decode and the answer of protected_resource: 200 with
\* the claims, or 401 for the ValueError validate_token raises.
ValidateToken(t) ==
    /\ pc[t] = "validate"
    /\ status' = [status EXCEPT ![t] = IF JwtDecode(auth_header[t].token, jwks[t]) THEN 200 ELSE 401]
    /\ pc' = [pc EXCEPT ![t] = "done"]
    /\ UNCHANGED <<cached_jwks, provider, fetchLog, auth_header, response, jwks>>
    /\ UNCHANGED <<rpVars, decoding>>

\* The response is sent; the thread takes the next request.
EndRequest(t) ==
    /\ pc[t] = "done"
    /\ pc' = [pc EXCEPT ![t] = "idle"]
    /\ auth_header' = [auth_header EXCEPT ![t] = NoHeader]
    /\ jwks' = [jwks EXCEPT ![t] = None]
    /\ status' = [status EXCEPT ![t] = 0]
    /\ UNCHANGED <<cached_jwks, provider, fetchLog, response>>
    /\ UNCHANGED <<rpVars, decoding>>

\* The identity provider goes down, comes back, or rotates its keys.
ProviderChange ==
    /\ \E p \in ProviderStates : p # provider /\ provider' = p
    /\ UNCHANGED <<cached_jwks, fetchLog, pc, auth_header, response, jwks, status>>
    /\ UNCHANGED <<rpVars, decoding>>


(***************************************************************************)
(* Relying party: strings, tokens and mappings.                            *)
(*                                                                         *)
(* A Python string is a sequence of symbols, "" is << >>; a value that may *)
(* be None is PyNone or PyStr(s); a dict is a function from its keys.      *)
(***************************************************************************)
PyNone == [none |-> TRUE, val |-> <<>>]
PyStr(s) == [none |-> FALSE, val |-> s]

\* Python truthiness of a str-or-None value: neither None nor "".
Truthy(v) == v.val # <<>>

\* d.get(k)
DictGet(d, k) == IF k \in DOMAIN d THEN PyStr(d[k]) ELSE PyNone

\* d[k] = v
DictSet(d, k, v) == [x \in DOMAIN d \cup {k} |-> IF x = k THEN v ELSE d[x]]

EmptyDict == [x \in {} |-> <<>>]

\* a or b, on str-or-None values
PyOr(a, b) == IF Truthy(a) THEN a ELSE b

\* s.split(sep): the segments between the occurrences of sep
Split(s, sep) ==
    LET seps == {i \in 1..Len(s) : s[i] = sep}
        n == Cardinality(seps)
        at(k) == CHOOSE i \in seps : Cardinality({j \in seps : j < i}) = k - 1
    IN  [k \in 1..(n + 1) |->
            SubSeq(s, IF k = 1 THEN 1 ELSE at(k - 1) + 1,
                      IF k = n + 1 THEN Len(s) ELSE at(k) - 1)]

RECURSIVE LStrip(_)
LStrip(s) == IF s # <<>> /\ Head(s) = " " THEN LStrip(Tail(s)) ELSE s

RECURSIVE RStrip(_)
RStrip(s) ==
    IF s # <<>> /\ s[Len(s)] = " " THEN RStrip(SubSeq(s, 1, Len(s) - 1)) ELSE s

\* s.strip()
Strip(s) == RStrip(LStrip(s))

\* '=' * n
Equals(n) == [i \in 1..n |-> "="]

\* The claims the provider encodes, by the base64url text of their JSON.
ClaimsAlice == [preferred_username |-> <<"alice">>, sub |-> <<"u1">>]
ClaimsSubOnly == [sub |-> <<"u2">>]
ClaimsBob == [preferred_username |-> <<"bob">>, sub |-> <<"u1">>]
ClaimsNameOnly == [preferred_username |-> <<"carol">>]

\* json.loads of the bytes a base64url text stands for.
JsonLoads(data) ==
    CASE data = <<"a", "l", "i">> -> [ok |-> TRUE, value |-> ClaimsAlice]
      [] data = <<"s", "u">> -> [ok |-> TRUE, value |-> ClaimsSubOnly]
      [] data = <<"c", "l", "m", "s">> -> [ok |-> TRUE, value |-> ClaimsBob]
      [] data = <<"e", "m", "p", "t", "y", "0">> -> [ok |-> TRUE, value |-> EmptyDict]
      [] OTHER -> [ok |-> FALSE, value |-> EmptyDict]

\* base64.urlsafe_b64decode: characters outside the alphabet are discarded,
\* the text needs at least the padding that completes its last quad, and a
\* lone character in the last quad is an error.
UrlsafeB64Decode(text) ==
    LET data == SelectSeq(text, LAMBDA c : c # "=" /\ c # " ")
        pads == Len(SelectSeq(text, LAMBDA c : c = "="))
    IN  [ok |-> (Len(data) % 4) # 1 /\ pads >= (4 - (Len(data) % 4)) % 4,
         data |-> data]

\* payload += '=' * (4 - len(payload) % 4)
Pad(payload) == payload \o Equals(4 - (Len(payload) % 4))

\* decode_jwt(token): the claims of the second segment, or an exception.
decode_jwt(token) ==
    LET parts == Split(token, ".")
    IN  IF Len(parts) < 2 THEN [ok |-> FALSE, value |-> EmptyDict]
        ELSE LET payload == Pad(parts[2])
                 decoded == UrlsafeB64Decode(payload)
             IN  IF decoded.ok THEN JsonLoads(decoded.data)
                 ELSE [ok |-> FALSE, value |-> EmptyDict]

AccessJwt == <<"h", ".", "c", "l", "m", "s", ".", "s">>

\* tokens.get('access_token') of a token response
AccessTokens ==
    { PyNone,
      PyStr(<<>>),
      PyStr(<<" ">>),
      PyStr(AccessJwt),
      PyStr(<<" ">> \o AccessJwt \o <<" ">>),
      PyStr(<<"o", "p", "a", "q", "u", "e">>) }

\* tokens.get('id_token') of a token response
IdTokens ==
    { PyNone,
      PyStr(<<"h", ".", "a", "l", "i", ".", "s">>),
      PyStr(<<"h", ".", "s", "u", ".", "s">>),
      PyStr(<<"h", ".", "e", "m", "p", "t", "y", "0", ".", "s">>),
      PyStr(<<"g", "a", "r", "b", "a", "g", "e">>) }

\* What the token endpoint may answer: no answer (network error), a non-2xx
\* status, a 2xx body that is no JSON, or a 2xx JSON body.
TokenResponses ==
    { [kind |-> k, access_token |-> PyNone, id_token |-> PyNone] :
          k \in {"neterr", "non2xx", "badjson"} }
    \cup { [kind |-> "ok", access_token |-> a, id_token |-> i] :
          a \in AccessTokens, i \in IdTokens }

\* What the userinfo endpoint may answer.
UserinfoResponses ==
    { [kind |-> k, body |-> EmptyDict] : k \in {"neterr", "non2xx", "badjson"} }
    \cup { [kind |-> "ok", body |-> b] :
          b \in {ClaimsAlice, ClaimsSubOnly, ClaimsBob, ClaimsNameOnly} }

\* What the resource server may answer to /call-protected-api's request.
ApiResponses == {"ok", "http401", "http500", "neterr", "badjson"}

SessionKeys == {"user", "userinfo", "access_token", "id_token"}

\* session.get(k), for the keys holding a str or None
SessionGet(k) == IF k \in DOMAIN session THEN session[k] ELSE PyNone

NoAttempt ==
    [state |-> "AwaitingCode", tokenPosts |-> 0, userinfoGets |-> 0,
     sessionWrites |-> 0, token |-> "none", userinfo |-> "none",
     raw_access_token |-> PyNone, access_token |-> PyNone, id_token |-> PyNone,
     userinfoAuth |-> PyNone, userinfoBody |-> EmptyDict, path |-> "none"]

Reply(route, st, loc) ==
    [route |-> route, status |-> st, location |-> loc, auth |-> PyNone, hint |-> PyNone]

NoReply == Reply("", 0, "")

InitRP ==
    /\ session = EmptyDict
    /\ attempt = NoAttempt
    /\ reply = NoReply

\* The user agent has no /callback request in progress.
Quiet == attempt.state \in {"AwaitingCode", "Authenticated", "Failed"}

\* Mutant of Fail: the error answer also drops the session.
Fail_ClearsSession(st) ==
    /\ attempt' = [attempt EXCEPT !.state = "Failed"]
    /\ reply' = Reply("/callback", st, "")
    /\ session' = EmptyDict

\* An error answer of /callback: the attempt ends Failed.
Fail(st) ==
    /\ attempt' = [attempt EXCEPT !.state = "Failed"]
    /\ reply' = Reply("/callback", st, "")
    /\ UNCHANGED session

\* callback: a request arrives; without a code it is answered 400.
CallbackBegin ==
    /\ Quiet
    /\ \E code \in BOOLEAN :
        IF ~code
        THEN /\ attempt' = [NoAttempt EXCEPT !.state = "Failed"]
             /\ reply' = Reply("/callback", 400, "")
        ELSE /\ attempt' = [NoAttempt EXCEPT !.state = "ExchangingToken"]
             /\ reply' = NoReply
    /\ UNCHANGED session
    /\ UNCHANGED <<rsVars, decoding>>

\* Mutant of CallbackTokenRequest: a 2xx answer is taken without the check
\* that it holds an access_token.
CallbackTokenRequest_NoAccessTokenCheck ==
    /\ attempt.state = "ExchangingToken"
    /\ \E resp \in TokenResponses :
        LET posted == [attempt EXCEPT !.tokenPosts = @ + 1, !.token = resp.kind,
                                      !.raw_access_token = resp.access_token]
        IN  IF resp.kind # "ok"
            THEN /\ attempt' = [posted EXCEPT !.state = "Failed"]
                 /\ reply' = Reply("/callback", 500, "")
            ELSE /\ attempt' = [posted EXCEPT
                                   !.state = "FetchingUserinfo",
                                   !.access_token = PyStr(Strip(resp.access_token.val)),
                                   !.id_token = resp.id_token]
                 /\ UNCHANGED reply
    /\ UNCHANGED session
    /\ UNCHANGED <<rsVars, decoding>>

\* Mutant of CallbackTokenRequest: a 2xx answer without id_token is refused
\* like one without access_token.
CallbackTokenRequest_RequireIdToken ==
    /\ attempt.state = "ExchangingToken"
    /\ \E resp \in TokenResponses :
        LET posted == [attempt EXCEPT !.tokenPosts = @ + 1, !.token = resp.kind,
                                      !.raw_access_token = resp.access_token]
        IN  IF resp.kind # "ok" \/ ~Truthy(resp.access_token) \/ ~Truthy(resp.id_token)
            THEN /\ attempt' = [posted EXCEPT !.state = "Failed"]
                 /\ reply' = Reply("/callback", 500, "")
            ELSE /\ attempt' = [posted EXCEPT
                                   !.state = "FetchingUserinfo",
                                   !.access_token = PyStr(Strip(resp.access_token.val)),
                                   !.id_token = resp.id_token]
                 /\ UNCHANGED reply
    /\ UNCHANGED session
    /\ UNCHANGED <<rsVars, decoding>>

\* Mutant of CallbackTokenRequest: the access_token is used as received,
\* without strip().
CallbackTokenRequest_NoStrip ==
    /\ attempt.state = "ExchangingToken"
    /\ \E resp \in TokenResponses :
        LET posted == [attempt EXCEPT !.tokenPosts = @ + 1, !.token = resp.kind,
                                      !.raw_access_token = resp.access_token]
        IN  IF resp.kind # "ok" \/ ~Truthy(resp.access_token)
            THEN /\ attempt' = [posted EXCEPT !.state = "Failed"]
                 /\ reply' = Reply("/callback", 500, "")
            ELSE /\ attempt' = [posted EXCEPT
                                   !.state = "FetchingUserinfo",
                                   !.access_token = resp.access_token,
                                   !.id_token = resp.id_token]
                 /\ UNCHANGED reply
    /\ UNCHANGED session
    /\ UNCHANGED <<rsVars, decoding>>

\* callback: the POST to the token endpoint, the checks of its answer and
\* access_token.strip(). The decode_jwt calls in between only print.
CallbackTokenRequest ==
    /\ attempt.state = "ExchangingToken"
    /\ \E resp \in TokenResponses :
        LET posted == [attempt EXCEPT !.tokenPosts = @ + 1, !.token = resp.kind,
                                      !.raw_access_token = resp.access_token]
        IN  IF resp.kind # "ok" \/ ~Truthy(resp.access_token)
            THEN /\ attempt' = [posted EXCEPT !.state = "Failed"]
                 /\ reply' = Reply("/callback", 500, "")
            ELSE /\ attempt' = [posted EXCEPT
                                   !.state = "FetchingUserinfo",
                                   !.access_token = PyStr(Strip(resp.access_token.val)),
                                   !.id_token = resp.id_token]
                 /\ UNCHANGED reply
    /\ UNCHANGED session
    /\ UNCHANGED <<rsVars, decoding>>

\* The four session writes of a successful login and the redirect to index.
Establish(a, user, userinfo) ==
    /\ session' = DictSet(DictSet(DictSet(DictSet(session,
                      "user", user), "userinfo", userinfo),
                      "access_token", a.access_token), "id_token", a.id_token)
    /\ attempt' = [a EXCEPT !.state = "Authenticated", !.sessionWrites = @ + 1]
    /\ reply' = Reply("/callback", 302, "/")

\* Mutant of CallbackUserinfoRequest: a network error is retried once.
CallbackUserinfoRequest_RetryOnce ==
    /\ attempt.state = "FetchingUserinfo"
    /\ \E resp \in UserinfoResponses :
        LET got == [attempt EXCEPT !.userinfoGets = @ + 1, !.userinfo = resp.kind,
                                   !.userinfoAuth = attempt.access_token,
                                   !.userinfoBody = resp.body]
        IN  CASE resp.kind = "ok" ->
                    Establish([got EXCEPT !.path = "userinfo"],
                              DictGet(resp.body, "preferred_username"), resp.body)
              [] resp.kind = "non2xx" /\ Truthy(attempt.id_token) ->
                    /\ attempt' = [got EXCEPT !.state = "FallbackDecoding"]
                    /\ UNCHANGED <<session, reply>>
              [] resp.kind = "neterr" /\ attempt.userinfoGets = 0 ->
                    /\ attempt' = got
                    /\ UNCHANGED <<session, reply>>
              [] OTHER ->
                    /\ attempt' = [got EXCEPT !.state = "Failed"]
                    /\ reply' = Reply("/callback", 500, "")
                    /\ UNCHANGED session
    /\ UNCHANGED <<rsVars, decoding>>

\* Mutant of CallbackUserinfoRequest: a non-2xx answer starts the fallback
\* without the check that an id_token was received.
CallbackUserinfoRequest_FallbackWithoutIdToken ==
    /\ attempt.state = "FetchingUserinfo"
    /\ \E resp \in UserinfoResponses :
        LET got == [attempt EXCEPT !.userinfoGets = @ + 1, !.userinfo = resp.kind,
                                   !.userinfoAuth = attempt.access_token,
                                   !.userinfoBody = resp.body]
        IN  CASE resp.kind = "ok" ->
                    Establish([got EXCEPT !.path = "userinfo"],
                              DictGet(resp.body, "preferred_username"), resp.body)
              [] resp.kind = "non2xx" ->
                    /\ attempt' = [got EXCEPT !.state = "FallbackDecoding"]
                    /\ UNCHANGED <<session, reply>>
              [] OTHER ->
                    /\ attempt' = [got EXCEPT !.state = "Failed"]
                    /\ reply' = Reply("/callback", 500, "")
                    /\ UNCHANGED session
    /\ UNCHANGED <<rsVars, decoding>>

\* callback: the GET of the userinfo endpoint and what follows its answer.
CallbackUserinfoRequest ==
    /\ attempt.state = "FetchingUserinfo"
    /\ \E resp \in UserinfoResponses :
        LET got == [attempt EXCEPT !.userinfoGets = @ + 1, !.userinfo = resp.kind,
                                   !.userinfoAuth = attempt.access_token,
                                   !.userinfoBody = resp.body]
        IN  CASE resp.kind = "ok" ->
                    Establish([got EXCEPT !.path = "userinfo"],
                              DictGet(resp.body, "preferred_username"), resp.body)
              [] resp.kind = "non2xx" /\ Truthy(attempt.id_token) ->
                    /\ attempt' = [got EXCEPT !.state = "FallbackDecoding"]
                    /\ UNCHANGED <<session, reply>>
              [] OTHER ->
                    /\ attempt' = [got EXCEPT !.state = "Failed"]
                    /\ reply' = Reply("/callback", 500, "")
                    /\ UNCHANGED session
    /\ UNCHANGED <<rsVars, decoding>>

\* callback: the fallback, decode_jwt(id_token) as the source of userinfo.
CallbackFallbackDecode ==
    /\ attempt.state = "FallbackDecoding"
    /\ LET decoded == decode_jwt(attempt.id_token.val)
       IN  IF decoded.ok
           THEN Establish([attempt EXCEPT !.path = "fallback"],
                          PyOr(DictGet(decoded.value, "preferred_username"),
                               DictGet(decoded.value, "sub")),
                          decoded.value)
           ELSE Fail(500)
    /\ UNCHANGED <<rsVars, decoding>>

\* The routes under @login_required.
ProtectedRoutes == {"/token", "/profile", "/call-protected-api"}

\* login_required: the guard lets the request through.
login_required == Truthy(SessionGet("user"))

RedirectToLogin(route) ==
    /\ reply' = Reply(route, 302, "/login")
    /\ UNCHANGED <<session, attempt>>

\* show_token
ShowToken ==
    /\ Quiet
    /\ IF ~login_required THEN RedirectToLogin("/token")
       ELSE /\ reply' =
                 IF ~Truthy(SessionGet("access_token")) THEN Reply("/token", 404, "")
                 ELSE IF decode_jwt(SessionGet("access_token").val).ok
                      THEN Reply("/token", 200, "")
                      ELSE Reply("/token", 500, "")
            /\ UNCHANGED <<session, attempt>>
    /\ UNCHANGED <<rsVars, decoding>>

\* profile
Profile ==
    /\ Quiet
    /\ IF ~login_required THEN RedirectToLogin("/profile")
       ELSE /\ reply' = Reply("/profile", 200, "")
            /\ UNCHANGED <<session, attempt>>
    /\ UNCHANGED <<rsVars, decoding>>

\* call_protected_api
CallProtectedApi ==
    /\ Quiet
    /\ IF ~login_required THEN RedirectToLogin("/call-protected-api")
       ELSE /\ IF ~Truthy(SessionGet("access_token"))
               THEN reply' = Reply("/call-protected-api", 401, "")
               ELSE \E resp \in ApiResponses :
                       reply' = [Reply("/call-protected-api",
                                       IF resp = "ok" THEN 200 ELSE 500, "")
                                 EXCEPT !.auth = SessionGet("access_token")]
            /\ UNCHANGED <<session, attempt>>
    /\ UNCHANGED <<rsVars, decoding>>

\* index and login: no guard, no change of the session
Index ==
    /\ Quiet
    /\ reply' = Reply("/", 200, "")
    /\ UNCHANGED <<session, attempt>>
    /\ UNCHANGED <<rsVars, decoding>>

Login ==
    /\ Quiet
    /\ reply' = Reply("/login", 302, "auth")
    /\ UNCHANGED <<session, attempt>>
    /\ UNCHANGED <<rsVars, decoding>>

\* Mutant of Logout: the redirect is sent without session.clear().
Logout_KeepsSession ==
    /\ Quiet
    /\ LET id_token == SessionGet("id_token")
       IN  reply' = [Reply("/logout", 302, "logout")
                     EXCEPT !.hint = IF Truthy(id_token) THEN id_token ELSE PyNone]
    /\ UNCHANGED session
    /\ UNCHANGED attempt
    /\ UNCHANGED <<rsVars, decoding>>

\* logout: session.clear() and the redirect to the provider's logout
\* endpoint, with id_token_hint when the session held an id_token.
Logout ==
    /\ Quiet
    /\ LET id_token == SessionGet("id_token")
       IN  reply' = [Reply("/logout", 302, "logout")
                     EXCEPT !.hint = IF Truthy(id_token) THEN id_token ELSE PyNone]
    /\ session' = EmptyDict
    /\ UNCHANGED attempt
    /\ UNCHANGED <<rsVars, decoding>>

\* Longest claims segment of the tokens decode_jwt is called with on its own.
MaxSegLen == 4

\* Claims segments: every text of up to MaxSegLen base64url characters.
Segments == UNION { [1..n -> {"s", "u"}] : n \in 0..MaxSegLen }

\* Arguments of decode_jwt: a text without dot, and header.claims.signature
\* for every claims segment.
DecodeTokens ==
    {<<"h">>} \cup { <<"h", ".">> \o seg \o <<".", "s">> : seg \in Segments }

NoDecoding ==
    [pc |-> "idle", token |-> <<>>, segment |-> <<>>, payload |-> <<>>,
     result |-> [ok |-> FALSE, value |-> EmptyDict]]

\* decode_jwt: the split, the test of the number of parts and the padding.
DecodeJwtPad ==
    /\ decoding.pc = "called"
    /\ LET parts == Split(decoding.token, ".")
       IN  IF Len(parts) < 2
           THEN decoding' = [decoding EXCEPT !.pc = "raised"]
           ELSE decoding' = [decoding EXCEPT !.pc = "padded",
                                             !.segment = parts[2],
                                             !.payload = Pad(parts[2])]
    /\ UNCHANGED <<rsVars, rpVars>>

\* decode_jwt: base64.urlsafe_b64decode and json.loads of the padded payload.
DecodeJwtLoad ==
    /\ decoding.pc = "padded"
    /\ LET decoded == UrlsafeB64Decode(decoding.payload)
           loaded == IF decoded.ok THEN JsonLoads(decoded.data)
                     ELSE [ok |-> FALSE, value |-> EmptyDict]
       IN  decoding' = [decoding EXCEPT
                           !.pc = IF loaded.ok THEN "returned" ELSE "raised",
                           !.result = loaded]
    /\ UNCHANGED <<rsVars, rpVars>>

Init == InitRS /\ InitRP /\ decoding = NoDecoding

\* decode_jwt called on its own with any of the tokens.
DecodeInit ==
    /\ InitRS /\ InitRP
    /\ \E token \in DecodeTokens :
          decoding = [NoDecoding EXCEPT !.pc = "called", !.token = token]

DecodeNext ==
    \/ DecodeJwtPad
    \/ DecodeJwtLoad

DecodeSpec == DecodeInit /\ [][DecodeNext]_vars


\* The resource server under concurrent requests.
Next ==
    \/ \E t \in Threads : BeginRequest(t)
    \/ \E t \in Threads : CheckCache(t)
    \/ \E t \in Threads : FetchJwks(t)
    \/ \E t \in Threads : StoreJwks(t)
    \/ \E t \in Threads : ReturnJwks(t)
    \/ \E t \in Threads : ValidateToken(t)
    \/ \E t \in Threads : EndRequest(t)
    \/ ProviderChange

Spec == Init /\ [][Next]_vars

\* A request is in flight from its arrival until its answer is computed.
InFlight(t) == pc[t] \notin {"idle", "done"}

\* A request that arrives while no other request is in flight.
SeqBeginRequest(t) ==
    /\ \A u \in Threads : ~InFlight(u)
    /\ BeginRequest(t)

SeqNext ==
    \/ \E t \in Threads : SeqBeginRequest(t)
    \/ \E t \in Threads : CheckCache(t)
    \/ \E t \in Threads : FetchJwks(t)
    \/ \E t \in Threads : StoreJwks(t)
    \/ \E t \in Threads : ReturnJwks(t)
    \/ \E t \in Threads : ValidateToken(t)
    \/ \E t \in Threads : EndRequest(t)
    \/ ProviderChange

\* The resource server when requests do not overlap (sequential calls).
SeqSpec == Init /\ [][SeqNext]_vars

AppNext ==
    \/ CallbackBegin
    \/ CallbackTokenRequest
    \/ CallbackUserinfoRequest
    \/ CallbackFallbackDecode
    \/ ShowToken
    \/ Profile
    \/ CallProtectedApi
    \/ Index
    \/ Login
    \/ Logout

\* The relying party serving one user agent.
AppSpec == Init /\ [][AppNext]_vars

\* A step of the /callback handler in progress.
CallbackStep ==
    \/ CallbackTokenRequest
    \/ CallbackUserinfoRequest
    \/ CallbackFallbackDecode

(***************************************************************************)
(* Claims about the signing-key cache.                                     *)
(***************************************************************************)
AllFetchesOk == \A i \in DOMAIN fetchLog : fetchLog[i] = "ok"

\* C1: callers of get_keycloak_jwks that race on the empty cache cause
\* exactly one upstream JWKS fetch in total: as long as no fetch fails, the
\* provider sees at most one request, and exactly one once a caller holds keys.
C1_OneFetchForRacingCallers ==
    AllFetchesOk =>
        /\ Len(fetchLog) <= 1
        /\ (\E t \in Threads : jwks[t].present) => Len(fetchLog) = 1

\* C2: all callers of get_keycloak_jwks that race on the first access return
\* the same key set.
C2_RacingCallersSameKeys ==
    \A t, u \in Threads :
        (jwks[t].present /\ jwks[u].present) => jwks[t] = jwks[u]

\* C3 as stated: over the process lifetime exactly one network call is made
\* to the JWKS endpoint, also when a fetch fails: never more than one, and
\* exactly one once a call has returned keys or failed.
C3_ExactlyOneNetworkCall ==
    /\ Len(fetchLog) <= 1
    /\ \A t \in Threads :
        (jwks[t].present \/ status[t] = 500) => Len(fetchLog) = 1

\* C3 amended: for non-overlapping calls, only the last network call can be a
\* successful one: every call before it failed (each failure leaves the cache
\* empty, so the next call fetches again), no network call follows a
\* successful one, and the cache is populated exactly by that success.
C3_OneSuccessfulFetch ==
    /\ \A i \in 1..(Len(fetchLog) - 1) : fetchLog[i] = "fail"
    /\ (Len(fetchLog) > 0 /\ fetchLog[Len(fetchLog)] = "ok")
          <=> (cached_jwks.present \/ \E t \in Threads : pc[t] = "store")

\* C3 witness: a failed fetch, then a later call that fetched again with
\* success and was answered from the populated cache.
C3_Witness ==
    /\ fetchLog = <<"fail", "ok">>
    /\ cached_jwks.present
    /\ \E t \in Threads : pc[t] = "done" /\ status[t] = 200

\* C4: once a key set is cached, sequential calls leave the cache as it is,
\* issue no upstream request and return the cached key set, whatever the
\* provider publishes meanwhile; the cache never goes back to empty.
C4_CacheRetained ==
    [][cached_jwks.present =>
          /\ cached_jwks' = cached_jwks
          /\ fetchLog' = fetchLog
          /\ \A t \in Threads :
                (pc[t] = "return" /\ pc'[t] = "validate") => jwks'[t] = cached_jwks]_vars

\* C4 witness: one call fetched and was answered; the provider now publishes
\* other keys; a later call got the same key set from the cache, with still
\* one request on the provider's record.
C4_Witness ==
    \E t, u \in Threads :
        /\ pc[t] = "done" /\ jwks[t].present
        /\ pc[u] = "validate" /\ jwks[u] = jwks[t] /\ jwks[u] = cached_jwks
        /\ provider.up /\ provider.keys # cached_jwks.keys
        /\ fetchLog = <<"ok">>

(***************************************************************************)
(* Claims about /protected-resource.                                       *)
(***************************************************************************)
\* A request that must not be accepted whatever keys the provider publishes.
InvalidRequest(h) ==
    \/ ~h.present
    \/ ~h.bearer
    \/ ~JwtDecode(h.token, Jwks(KeyIds))

\* C5 as stated: every request with a missing or non-Bearer header or a
\* malformed or invalid token is answered 401, in every state of the cache
\* and of the provider.
C5_InvalidAlways401 ==
    \A t \in Threads :
        (pc[t] = "done" /\ InvalidRequest(auth_header[t])) => status[t] = 401

\* C5 amended: a missing or non-Bearer header is answered 401 in every state;
\* a Bearer request is answered 500 exactly when get_keycloak_jwks gave it no
\* key set (empty cache and failed fetch), whatever its token; with a key set
\* obtained, a malformed or invalid token is answered 401.
C5_StatusByKeyAvailability ==
    \A t \in Threads :
        pc[t] = "done" =>
            /\ status[t] \in {200, 401, 500}
            /\ (~auth_header[t].present \/ ~auth_header[t].bearer) => status[t] = 401
            /\ status[t] = 500 <=> (auth_header[t].bearer /\ ~jwks[t].present)
            /\ status[t] = 500 => \E i \in DOMAIN fetchLog : fetchLog[i] = "fail"
            /\ (jwks[t].present /\ InvalidRequest(auth_header[t])) => status[t] = 401

\* C5 witness: a malformed token answered 500 because the fetch failed, and
\* an invalid token answered 401 with the key set at hand.
C5_Witness ==
    \E t, u \in Threads :
        /\ pc[t] = "done" /\ auth_header[t].bearer /\ ~auth_header[t].token.wf
        /\ status[t] = 500
        /\ pc[u] = "done" /\ auth_header[u].bearer /\ auth_header[u].token.alg = "HS256"
        /\ jwks[u].present /\ status[u] = 401

Terminal == attempt.state \in {"Authenticated", "Failed"}

C7_CountsAndOutcome ==
    /\ attempt.tokenPosts <= 1
    /\ attempt.userinfoGets <= 1
    /\ attempt.state = "Authenticated" => attempt.sessionWrites = 1
    /\ attempt.state # "Authenticated" => attempt.sessionWrites = 0
    /\ reply.route = "/callback" =>
          /\ Terminal
          /\ attempt.state = "Authenticated" =>
                (reply.status = 302 /\ reply.location = "/")
          /\ attempt.state = "Failed" => reply.status \in {400, 500}

\* How far a login attempt has come.
Rank(state) ==
    CASE state = "AwaitingCode" -> 0
      [] state = "ExchangingToken" -> 1
      [] state = "FetchingUserinfo" -> 2
      [] state = "FallbackDecoding" -> 3
      [] OTHER -> 4

\* C7: a login attempt posts to the token endpoint at most once and gets the
\* userinfo endpoint at most once; an attempt in progress can always take its
\* next step, every step brings it nearer to its end and never back, and it
\* ends either Authenticated (session written once, redirect to /) or Failed
\* (an error answer, session not written).
C7_AttemptRunsOnceToTheEnd ==
    [][/\ C7_CountsAndOutcome'
       /\ ~Quiet =>
            /\ ENABLED CallbackStep
            /\ Rank(attempt'.state) > Rank(attempt.state)
            /\ attempt'.tokenPosts + attempt'.userinfoGets
                  >= attempt.tokenPosts + attempt.userinfoGets]_vars

\* C7 witness: an attempt that went through both network calls and the
\* fallback decoding, and ended Authenticated.
C7_Witness ==
    /\ attempt.state = "Authenticated"
    /\ attempt.path = "fallback"
    /\ attempt.tokenPosts = 1 /\ attempt.userinfoGets = 1
    /\ reply.route = "/callback"

\* C8: the userinfo request is made and the session written only after the
\* token endpoint answered 2xx with an access_token; any other answer of the
\* token endpoint ends the attempt Failed with no userinfo request.
C8_UserinfoOnlyAfterAccessToken ==
    /\ (attempt.userinfoGets > 0 \/ attempt.sessionWrites > 0) =>
          /\ attempt.tokenPosts = 1
          /\ attempt.token = "ok"
          /\ Truthy(attempt.raw_access_token)
    /\ (attempt.tokenPosts = 1
            /\ (attempt.token # "ok" \/ ~Truthy(attempt.raw_access_token))) =>
          /\ attempt.state = "Failed"
          /\ attempt.userinfoGets = 0
          /\ attempt.sessionWrites = 0
          /\ reply = Reply("/callback", 500, "") \/ reply.route # "/callback"

\* C8 witness: a 2xx token response without access_token ended the attempt
\* Failed before any userinfo request.
C8_Witness ==
    /\ attempt.state = "Failed"
    /\ attempt.token = "ok" /\ attempt.raw_access_token = PyNone
    /\ attempt.tokenPosts = 1 /\ attempt.userinfoGets = 0
    /\ reply = Reply("/callback", 500, "")

\* preferred_username if present, otherwise sub
PrimaryIdentity(claims) ==
    PyOr(DictGet(claims, "preferred_username"), DictGet(claims, "sub"))

\* C9: when the userinfo request succeeds, the session's user is the
\* userinfo's preferred_username if present and otherwise its sub.
C9_UserFromUserinfo ==
    (attempt.state = "Authenticated" /\ attempt.path = "userinfo"
        /\ reply.route = "/callback") =>
        SessionGet("user") = PrimaryIdentity(session["userinfo"])

\* C10: when the userinfo retrieval fails, by a non-2xx answer or a network
\* error, and the id_token received decodes, the attempt ends Authenticated
\* with the id_token's claims as userinfo and their preferred_username or sub
\* as user.
C10_FallbackOnUserinfoFailure ==
    (Terminal /\ reply.route = "/callback"
        /\ attempt.userinfo \in {"non2xx", "neterr"}
        /\ Truthy(attempt.id_token)
        /\ decode_jwt(attempt.id_token.val).ok) =>
        /\ attempt.state = "Authenticated"
        /\ attempt.path = "fallback"
        /\ session["userinfo"] = decode_jwt(attempt.id_token.val).value
        /\ SessionGet("user") = PrimaryIdentity(session["userinfo"])

\* C11: when the userinfo retrieval fails, by a non-2xx answer, a network
\* error or a body that is not JSON, and the token response held no id_token,
\* the attempt is Failed from that answer on: the fallback decoding is never
\* entered, the session is not written and /callback answers 500.
C11_NoIdTokenNoFallback ==
    (attempt.userinfoGets = 1 /\ attempt.userinfo \in {"non2xx", "neterr", "badjson"}
        /\ ~Truthy(attempt.id_token)) =>
        /\ attempt.state = "Failed"
        /\ attempt.path = "none"
        /\ attempt.sessionWrites = 0
        /\ reply.route = "/callback" => reply = Reply("/callback", 500, "")

\* C11 witness: the userinfo endpoint answered non-2xx to an attempt whose
\* token response held an access_token and no id_token; /callback answered 500.
C11_Witness ==
    /\ attempt.state = "Failed"
    /\ attempt.userinfoGets = 1 /\ attempt.userinfo = "non2xx"
    /\ Truthy(attempt.raw_access_token) /\ attempt.id_token = PyNone
    /\ reply = Reply("/callback", 500, "")

\* The attempt got an access_token and no id_token, and its userinfo request
\* succeeded.
C12_NoIdTokenUserinfoOk ==
    /\ attempt.tokenPosts = 1 /\ attempt.token = "ok"
    /\ Truthy(attempt.raw_access_token) /\ attempt.id_token = PyNone
    /\ attempt.userinfoGets = 1 /\ attempt.userinfo = "ok"

\* C12: a token response with an access_token goes on to the userinfo
\* request whether or not it holds an id_token; without id_token and with a
\* successful userinfo request, the attempt ends Authenticated with the
\* session's userinfo equal to the userinfo response and no id_token in the
\* session; and a logout from a session without id_token clears it and
\* redirects to the provider's logout endpoint without id_token_hint.
C12_MissingIdTokenNotFatal ==
    [][/\ (attempt'.tokenPosts = 1 /\ attempt'.token = "ok"
            /\ Truthy(attempt'.raw_access_token) /\ attempt'.userinfoGets = 0) =>
            attempt'.state = "FetchingUserinfo"
       /\ C12_NoIdTokenUserinfoOk' =>
            /\ attempt'.state = "Authenticated"
            /\ reply'.route = "/callback" =>
                  /\ reply' = Reply("/callback", 302, "/")
                  /\ session'["userinfo"] = attempt'.userinfoBody
                  /\ session'["id_token"] = PyNone
       /\ (reply'.route = "/logout" /\ ~Truthy(SessionGet("id_token"))) =>
            /\ reply' = Reply("/logout", 302, "logout")
            /\ reply'.hint = PyNone
            /\ session' = EmptyDict]_vars

\* C12 witness: such an attempt ended Authenticated, and the logout that
\* followed was redirected to the provider without id_token_hint.
C12_Witness ==
    /\ C12_NoIdTokenUserinfoOk
    /\ attempt.state = "Authenticated"
    /\ attempt.userinfoBody = ClaimsBob
    /\ reply = Reply("/logout", 302, "logout")
    /\ session = EmptyDict

(***************************************************************************)
(* Claims about the session, the guard and logout.                         *)
(***************************************************************************)
\* C13: every logout leaves the session empty (no user, userinfo,
\* access_token or id_token); while the session is empty every request to
\* /token, /profile and /call-protected-api is redirected to /login and
\* changes nothing; and an empty session stops being empty only by the step
\* that ends a login attempt Authenticated.
C13_LogoutClearsUntilLogin ==
    [][/\ reply'.route = "/logout" =>
            /\ session' = EmptyDict
            /\ \A k \in SessionKeys : k \notin DOMAIN session'
       /\ (session = EmptyDict /\ reply'.route \in ProtectedRoutes) =>
            /\ reply' = Reply(reply'.route, 302, "/login")
            /\ session' = EmptyDict
       /\ (session = EmptyDict /\ session' # EmptyDict) =>
            /\ attempt.state \in {"FetchingUserinfo", "FallbackDecoding"}
            /\ attempt'.state = "Authenticated"
            /\ reply' = Reply("/callback", 302, "/")]_vars

\* C13 witness: after a login that ended Authenticated and a logout, /token
\* was redirected to /login.
C13_Witness ==
    /\ attempt.state = "Authenticated"
    /\ session = EmptyDict
    /\ reply = Reply("/token", 302, "/login")

\* C14: a request to /token, /profile or /call-protected-api made with no
\* session, or with a session whose user is missing or whose access_token is
\* missing or empty, is answered with a redirect to /login and never with an
\* error status.
C14_InvalidSessionRedirects ==
    (reply.route \in ProtectedRoutes
        /\ (~Truthy(SessionGet("user")) \/ ~Truthy(SessionGet("access_token")))) =>
        reply = Reply(reply.route, 302, "/login")

(***************************************************************************)
(* Claims about decode_jwt.                                                *)
(***************************************************************************)
\* C15: for a claims segment of length n, decode_jwt appends exactly
\* (4 - n mod 4) mod 4 '=' characters before the base64url decoding: the
\* padded segment is the shortest extension of the segment whose length is a
\* multiple of 4, and nothing is appended when n is a multiple of 4.
C15_ShortestPadding ==
    decoding.pc \in {"padded", "returned"} =>
        LET n == Len(decoding.segment)
        IN  /\ decoding.payload = decoding.segment \o Equals((4 - (n % 4)) % 4)
            /\ Len(decoding.payload) % 4 = 0
            /\ n % 4 = 0 => decoding.payload = decoding.segment

(***************************************************************************)
(* Claims about the access token.                                          *)
(***************************************************************************)
\* The token received, without its leading and trailing whitespace.
C16_TrimmedReceived == PyStr(Strip(attempt.raw_access_token.val))

\* C16: the Authorization header of the userinfo request carries the
\* received access token trimmed of surrounding whitespace; so does the
\* session after an attempt that ended Authenticated, by the userinfo answer
\* or by the id_token fallback; a token in the session never has surrounding
\* whitespace, and the Authorization header forwarded to the resource server
\* carries the session's token.
C16_TrimmedTokenEverywhere ==
    /\ attempt.userinfoGets = 1 => attempt.userinfoAuth = C16_TrimmedReceived
    /\ (attempt.state = "Authenticated" /\ session # EmptyDict) =>
          /\ attempt.path \in {"userinfo", "fallback"}
          /\ session["access_token"] = C16_TrimmedReceived
    /\ "access_token" \in DOMAIN session =>
          Strip(session["access_token"].val) = session["access_token"].val
    /\ reply.auth # PyNone =>
          /\ reply.route = "/call-protected-api"
          /\ reply.auth = session["access_token"]

\* C16 witness: a token received with a space on either side, an attempt
\* that ended Authenticated by the id_token fallback, and the token forwarded
\* to the resource server without the spaces.
C16_Witness ==
    /\ attempt.raw_access_token = PyStr(<<" ">> \o AccessJwt \o <<" ">>)
    /\ attempt.state = "Authenticated" /\ attempt.path = "fallback"
    /\ attempt.userinfoAuth = PyStr(AccessJwt)
    /\ session # EmptyDict /\ session["access_token"] = PyStr(AccessJwt)
    /\ reply.route = "/call-protected-api" /\ reply.auth = PyStr(AccessJwt)

(***************************************************************************)
(* Claims about a failed JWKS fetch.                                       *)
(***************************************************************************)
\* How far a request has come in protected_resource.
C17_Rank(p) ==
    CASE p = "idle" -> 0
      [] p = "check" -> 1
      [] p = "fetch" -> 2
      [] p = "store" -> 3
      [] p = "return" -> 4
      [] p = "validate" -> 5
      [] OTHER -> 6

\* C17: a verification call only moves forward until it is answered, and
\* every JWKS request is made by a call that thereby leaves the fetching
\* step, so a call makes at most one JWKS request; a failed request ends the
\* call at once with status 500 and no key set, and leaves the cache empty;
\* and a call that finds the cache empty fetches (again).
C17_FailedFetchNotRetried ==
    [][/\ \A t \in Threads :
            pc'[t] # pc[t] =>
                \/ C17_Rank(pc'[t]) > C17_Rank(pc[t])
                \/ pc[t] = "done" /\ pc'[t] = "idle"
       /\ fetchLog' # fetchLog =>
            \E t \in Threads :
                /\ pc[t] = "fetch" /\ pc'[t] \in {"store", "done"}
                /\ fetchLog' = Append(fetchLog, IF pc'[t] = "store" THEN "ok" ELSE "fail")
                /\ pc'[t] = "done" =>
                      /\ status'[t] = 500
                      /\ ~jwks'[t].present
                      /\ cached_jwks' = None
       /\ \A t \in Threads :
            (pc[t] = "check" /\ pc'[t] # "check") =>
                (pc'[t] = "fetch" <=> cached_jwks = None)]_vars

\* C17 witness: a call whose fetch failed was answered 500 after one
\* request; with the provider back, the next call fetched again and was
\* answered 200.
C17_Witness ==
    \E t, u \in Threads :
        /\ pc[t] = "done" /\ status[t] = 500 /\ ~jwks[t].present
        /\ pc[u] = "done" /\ status[u] = 200 /\ jwks[u] = cached_jwks
        /\ cached_jwks.present
        /\ fetchLog = <<"fail", "ok">>

(***************************************************************************)
(* Claims about the writes of the session.                                 *)
(***************************************************************************)
\* C18: a step of /callback that ends the attempt Failed, and every step
\* before it, leaves the session as it was; the session changes only by a
\* logout, which empties it, or by the step that ends an attempt
\* Authenticated, which writes user, userinfo, access_token and id_token
\* together.
C18_SessionWrittenOnlyOnAuthenticated ==
    [][/\ (reply'.route = "/callback" /\ attempt'.state = "Failed") =>
            session' = session
       /\ (~Quiet /\ attempt'.state # "Authenticated") => session' = session
       /\ session' # session =>
            \/ reply'.route = "/logout" /\ session' = EmptyDict
            \/ /\ attempt.state \in {"FetchingUserinfo", "FallbackDecoding"}
               /\ attempt'.state = "Authenticated"
       /\ (attempt.state # "Authenticated" /\ attempt'.state = "Authenticated") =>
            /\ DOMAIN session' = SessionKeys
            /\ session'["userinfo"] =
                  (IF attempt'.path = "userinfo" THEN attempt'.userinfoBody
                   ELSE decode_jwt(attempt'.id_token.val).value)
            /\ session'["access_token"] = attempt'.access_token
            /\ session'["id_token"] = attempt'.id_token
            /\ session'["user"] \in
                  {DictGet(session'["userinfo"], "preferred_username"),
                   DictGet(session'["userinfo"], "sub")}]_vars

\* C18 witness: a session established by an earlier login is still there
\* after a later attempt whose userinfo request was refused and whose
\* id_token did not decode ended Failed.
C18_Witness ==
    /\ attempt.state = "Failed"
    /\ attempt.userinfoGets = 1 /\ attempt.userinfo = "non2xx"
    /\ Truthy(attempt.id_token) /\ ~decode_jwt(attempt.id_token.val).ok
    /\ reply = Reply("/callback", 500, "")
    /\ DOMAIN session = SessionKeys
    /\ Truthy(session["user"])

\* C19: in every state, whatever the token endpoint answered, a session whose
\* user is set also holds a non-empty access_token and a userinfo mapping, so
\* /token never answers 404 and /call-protected-api never answers 401.
C19_UserImpliesAccessToken ==
    /\ Truthy(SessionGet("user")) =>
          /\ Truthy(SessionGet("access_token"))
          /\ "userinfo" \in DOMAIN session
    /\ reply.route = "/token" => reply.status # 404
    /\ reply.route = "/call-protected-api" => reply.status # 401

====
